---- MODULE Spec2Model ----
(***************************************************************************)
(* Model of the subject line scorer (src/api/index.py).                    *)
(*                                                                         *)
(* A Python str is modelled as the sequence of its code points, so that    *)
(* strip(), lower(), `in`, count() and the ALL_CAPS_PATTERN regular        *)
(* expression are computed character by character as Python computes them.*)
(* The handler subject_line_scorer is modelled as its for-loop (one action *)
(* per kind of iteration) followed by the selection of best_subject.       *)
(***************************************************************************)
EXTENDS Integers, Sequences, FiniteSets

VARIABLES subject_lines, results, best_subject, pc

vars == <<subject_lines, results, best_subject, pc>>

(***************************************************************************)
(* Bounds of the model.                                                    *)
(***************************************************************************)
MaxTokens == 3
MaxBatch == 3

(***************************************************************************)
(* Characters are Unicode code points, as in a Python 3 str.  The tables   *)
(* below are those of CPython 3.11 (Unicode 14.0.0): str.isspace(), \w of  *)
(* the re module for a str pattern, and the case mappings of str.lower().  *)
(***************************************************************************)
InRanges(c, ranges) == \E r \in ranges : r[1] <= c /\ c <= r[2]

\* Characters str.strip() removes: every c with c.isspace().
Whitespace ==
  {9, 10, 11, 12, 13, 28, 29, 30, 31, 32, 133, 160, 5760} \cup 8192..8202
    \cup {8232, 8233, 8239, 8287, 12288}

\* [A-Z] of ALL_CAPS_PATTERN.
IsUpper(c) == c \in 65..90

\* \w below 128: [0-9A-Z_a-z].
AsciiWordChars == 48..57 \cup 65..90 \cup {95} \cup 97..122

\* \w from 128 on, as ranges <<first, last>>.
WordRanges ==
  {
     <<170, 170>>, <<178, 179>>, <<181, 181>>, <<185, 186>>, <<188, 190>>, <<192, 214>>, <<216,
     246>>, <<248, 705>>, <<710, 721>>, <<736, 740>>, <<748, 748>>, <<750, 750>>, <<880, 884>>,
     <<886, 887>>, <<890, 893>>, <<895, 895>>, <<902, 902>>, <<904, 906>>, <<908, 908>>, <<910,
     929>>, <<931, 1013>>, <<1015, 1153>>, <<1162, 1327>>, <<1329, 1366>>, <<1369, 1369>>, <<1376,
     1416>>, <<1488, 1514>>, <<1519, 1522>>, <<1568, 1610>>, <<1632, 1641>>, <<1646, 1647>>, <<1649,
     1747>>, <<1749, 1749>>, <<1765, 1766>>, <<1774, 1788>>, <<1791, 1791>>, <<1808, 1808>>, <<1810,
     1839>>, <<1869, 1957>>, <<1969, 1969>>, <<1984, 2026>>, <<2036, 2037>>, <<2042, 2042>>, <<2048,
     2069>>, <<2074, 2074>>, <<2084, 2084>>, <<2088, 2088>>, <<2112, 2136>>, <<2144, 2154>>, <<2160,
     2183>>, <<2185, 2190>>, <<2208, 2249>>, <<2308, 2361>>, <<2365, 2365>>, <<2384, 2384>>, <<2392,
     2401>>, <<2406, 2415>>, <<2417, 2432>>, <<2437, 2444>>, <<2447, 2448>>, <<2451, 2472>>, <<2474,
     2480>>, <<2482, 2482>>, <<2486, 2489>>, <<2493, 2493>>, <<2510, 2510>>, <<2524, 2525>>, <<2527,
     2529>>, <<2534, 2545>>, <<2548, 2553>>, <<2556, 2556>>, <<2565, 2570>>, <<2575, 2576>>, <<2579,
     2600>>, <<2602, 2608>>, <<2610, 2611>>, <<2613, 2614>>, <<2616, 2617>>, <<2649, 2652>>, <<2654,
     2654>>, <<2662, 2671>>, <<2674, 2676>>, <<2693, 2701>>, <<2703, 2705>>, <<2707, 2728>>, <<2730,
     2736>>, <<2738, 2739>>, <<2741, 2745>>, <<2749, 2749>>, <<2768, 2768>>, <<2784, 2785>>, <<2790,
     2799>>, <<2809, 2809>>, <<2821, 2828>>, <<2831, 2832>>, <<2835, 2856>>, <<2858, 2864>>, <<2866,
     2867>>, <<2869, 2873>>, <<2877, 2877>>, <<2908, 2909>>, <<2911, 2913>>, <<2918, 2927>>, <<2929,
     2935>>, <<2947, 2947>>, <<2949, 2954>>, <<2958, 2960>>, <<2962, 2965>>, <<2969, 2970>>, <<2972,
     2972>>, <<2974, 2975>>, <<2979, 2980>>, <<2984, 2986>>, <<2990, 3001>>, <<3024, 3024>>, <<3046,
     3058>>, <<3077, 3084>>, <<3086, 3088>>, <<3090, 3112>>, <<3114, 3129>>, <<3133, 3133>>, <<3160,
     3162>>, <<3165, 3165>>, <<3168, 3169>>, <<3174, 3183>>, <<3192, 3198>>, <<3200, 3200>>, <<3205,
     3212>>, <<3214, 3216>>, <<3218, 3240>>, <<3242, 3251>>, <<3253, 3257>>, <<3261, 3261>>, <<3293,
     3294>>, <<3296, 3297>>, <<3302, 3311>>, <<3313, 3314>>, <<3332, 3340>>, <<3342, 3344>>, <<3346,
     3386>>, <<3389, 3389>>, <<3406, 3406>>, <<3412, 3414>>, <<3416, 3425>>, <<3430, 3448>>, <<3450,
     3455>>, <<3461, 3478>>, <<3482, 3505>>, <<3507, 3515>>, <<3517, 3517>>, <<3520, 3526>>, <<3558,
     3567>>, <<3585, 3632>>, <<3634, 3635>>, <<3648, 3654>>, <<3664, 3673>>, <<3713, 3714>>, <<3716,
     3716>>, <<3718, 3722>>, <<3724, 3747>>, <<3749, 3749>>, <<3751, 3760>>, <<3762, 3763>>, <<3773,
     3773>>, <<3776, 3780>>, <<3782, 3782>>, <<3792, 3801>>, <<3804, 3807>>, <<3840, 3840>>, <<3872,
     3891>>, <<3904, 3911>>, <<3913, 3948>>, <<3976, 3980>>, <<4096, 4138>>, <<4159, 4169>>, <<4176,
     4181>>, <<4186, 4189>>, <<4193, 4193>>, <<4197, 4198>>, <<4206, 4208>>, <<4213, 4225>>, <<4238,
     4238>>, <<4240, 4249>>, <<4256, 4293>>, <<4295, 4295>>, <<4301, 4301>>, <<4304, 4346>>, <<4348,
     4680>>, <<4682, 4685>>, <<4688, 4694>>, <<4696, 4696>>, <<4698, 4701>>, <<4704, 4744>>, <<4746,
     4749>>, <<4752, 4784>>, <<4786, 4789>>, <<4792, 4798>>, <<4800, 4800>>, <<4802, 4805>>, <<4808,
     4822>>, <<4824, 4880>>, <<4882, 4885>>, <<4888, 4954>>, <<4969, 4988>>, <<4992, 5007>>, <<5024,
     5109>>, <<5112, 5117>>, <<5121, 5740>>, <<5743, 5759>>, <<5761, 5786>>, <<5792, 5866>>, <<5870,
     5880>>, <<5888, 5905>>, <<5919, 5937>>, <<5952, 5969>>, <<5984, 5996>>, <<5998, 6000>>, <<6016,
     6067>>, <<6103, 6103>>, <<6108, 6108>>, <<6112, 6121>>, <<6128, 6137>>, <<6160, 6169>>, <<6176,
     6264>>, <<6272, 6276>>, <<6279, 6312>>, <<6314, 6314>>, <<6320, 6389>>, <<6400, 6430>>, <<6470,
     6509>>, <<6512, 6516>>, <<6528, 6571>>, <<6576, 6601>>, <<6608, 6618>>, <<6656, 6678>>, <<6688,
     6740>>, <<6784, 6793>>, <<6800, 6809>>, <<6823, 6823>>, <<6917, 6963>>, <<6981, 6988>>, <<6992,
     7001>>, <<7043, 7072>>, <<7086, 7141>>, <<7168, 7203>>, <<7232, 7241>>, <<7245, 7293>>, <<7296,
     7304>>, <<7312, 7354>>, <<7357, 7359>>, <<7401, 7404>>, <<7406, 7411>>, <<7413, 7414>>, <<7418,
     7418>>, <<7424, 7615>>, <<7680, 7957>>, <<7960, 7965>>, <<7968, 8005>>, <<8008, 8013>>, <<8016,
     8023>>, <<8025, 8025>>, <<8027, 8027>>, <<8029, 8029>>, <<8031, 8061>>, <<8064, 8116>>, <<8118,
     8124>>, <<8126, 8126>>, <<8130, 8132>>, <<8134, 8140>>, <<8144, 8147>>, <<8150, 8155>>, <<8160,
     8172>>, <<8178, 8180>>, <<8182, 8188>>, <<8304, 8305>>, <<8308, 8313>>, <<8319, 8329>>, <<8336,
     8348>>, <<8450, 8450>>, <<8455, 8455>>, <<8458, 8467>>, <<8469, 8469>>, <<8473, 8477>>, <<8484,
     8484>>, <<8486, 8486>>, <<8488, 8488>>, <<8490, 8493>>, <<8495, 8505>>, <<8508, 8511>>, <<8517,
     8521>>, <<8526, 8526>>, <<8528, 8585>>, <<9312, 9371>>, <<9450, 9471>>, <<10102, 10131>>,
     <<11264, 11492>>, <<11499, 11502>>, <<11506, 11507>>, <<11517, 11517>>, <<11520, 11557>>,
     <<11559, 11559>>, <<11565, 11565>>, <<11568, 11623>>, <<11631, 11631>>, <<11648, 11670>>,
     <<11680, 11686>>, <<11688, 11694>>, <<11696, 11702>>, <<11704, 11710>>, <<11712, 11718>>,
     <<11720, 11726>>, <<11728, 11734>>, <<11736, 11742>>, <<11823, 11823>>, <<12293, 12295>>,
     <<12321, 12329>>, <<12337, 12341>>, <<12344, 12348>>, <<12353, 12438>>, <<12445, 12447>>,
     <<12449, 12538>>, <<12540, 12543>>, <<12549, 12591>>, <<12593, 12686>>, <<12690, 12693>>,
     <<12704, 12735>>, <<12784, 12799>>, <<12832, 12841>>, <<12872, 12879>>, <<12881, 12895>>,
     <<12928, 12937>>, <<12977, 12991>>, <<13312, 19903>>, <<19968, 42124>>, <<42192, 42237>>,
     <<42240, 42508>>, <<42512, 42539>>, <<42560, 42606>>, <<42623, 42653>>, <<42656, 42735>>,
     <<42775, 42783>>, <<42786, 42888>>, <<42891, 42954>>, <<42960, 42961>>, <<42963, 42963>>,
     <<42965, 42969>>, <<42994, 43009>>, <<43011, 43013>>, <<43015, 43018>>, <<43020, 43042>>,
     <<43056, 43061>>, <<43072, 43123>>, <<43138, 43187>>, <<43216, 43225>>, <<43250, 43255>>,
     <<43259, 43259>>, <<43261, 43262>>, <<43264, 43301>>, <<43312, 43334>>, <<43360, 43388>>,
     <<43396, 43442>>, <<43471, 43481>>, <<43488, 43492>>, <<43494, 43518>>, <<43520, 43560>>,
     <<43584, 43586>>, <<43588, 43595>>, <<43600, 43609>>, <<43616, 43638>>, <<43642, 43642>>,
     <<43646, 43695>>, <<43697, 43697>>, <<43701, 43702>>, <<43705, 43709>>, <<43712, 43712>>,
     <<43714, 43714>>, <<43739, 43741>>, <<43744, 43754>>, <<43762, 43764>>, <<43777, 43782>>,
     <<43785, 43790>>, <<43793, 43798>>, <<43808, 43814>>, <<43816, 43822>>, <<43824, 43866>>,
     <<43868, 43881>>, <<43888, 44002>>, <<44016, 44025>>, <<44032, 55203>>, <<55216, 55238>>,
     <<55243, 55291>>, <<63744, 64109>>, <<64112, 64217>>, <<64256, 64262>>, <<64275, 64279>>,
     <<64285, 64285>>, <<64287, 64296>>, <<64298, 64310>>, <<64312, 64316>>, <<64318, 64318>>,
     <<64320, 64321>>, <<64323, 64324>>, <<64326, 64433>>, <<64467, 64829>>, <<64848, 64911>>,
     <<64914, 64967>>, <<65008, 65019>>, <<65136, 65140>>, <<65142, 65276>>, <<65296, 65305>>,
     <<65313, 65338>>, <<65345, 65370>>, <<65382, 65470>>, <<65474, 65479>>, <<65482, 65487>>,
     <<65490, 65495>>, <<65498, 65500>>, <<65536, 65547>>, <<65549, 65574>>, <<65576, 65594>>,
     <<65596, 65597>>, <<65599, 65613>>, <<65616, 65629>>, <<65664, 65786>>, <<65799, 65843>>,
     <<65856, 65912>>, <<65930, 65931>>, <<66176, 66204>>, <<66208, 66256>>, <<66273, 66299>>,
     <<66304, 66339>>, <<66349, 66378>>, <<66384, 66421>>, <<66432, 66461>>, <<66464, 66499>>,
     <<66504, 66511>>, <<66513, 66517>>, <<66560, 66717>>, <<66720, 66729>>, <<66736, 66771>>,
     <<66776, 66811>>, <<66816, 66855>>, <<66864, 66915>>, <<66928, 66938>>, <<66940, 66954>>,
     <<66956, 66962>>, <<66964, 66965>>, <<66967, 66977>>, <<66979, 66993>>, <<66995, 67001>>,
     <<67003, 67004>>, <<67072, 67382>>, <<67392, 67413>>, <<67424, 67431>>, <<67456, 67461>>,
     <<67463, 67504>>, <<67506, 67514>>, <<67584, 67589>>, <<67592, 67592>>, <<67594, 67637>>,
     <<67639, 67640>>, <<67644, 67644>>, <<67647, 67669>>, <<67672, 67702>>, <<67705, 67742>>,
     <<67751, 67759>>, <<67808, 67826>>, <<67828, 67829>>, <<67835, 67867>>, <<67872, 67897>>,
     <<67968, 68023>>, <<68028, 68047>>, <<68050, 68096>>, <<68112, 68115>>, <<68117, 68119>>,
     <<68121, 68149>>, <<68160, 68168>>, <<68192, 68222>>, <<68224, 68255>>, <<68288, 68295>>,
     <<68297, 68324>>, <<68331, 68335>>, <<68352, 68405>>, <<68416, 68437>>, <<68440, 68466>>,
     <<68472, 68497>>, <<68521, 68527>>, <<68608, 68680>>, <<68736, 68786>>, <<68800, 68850>>,
     <<68858, 68899>>, <<68912, 68921>>, <<69216, 69246>>, <<69248, 69289>>, <<69296, 69297>>,
     <<69376, 69415>>, <<69424, 69445>>, <<69457, 69460>>, <<69488, 69505>>, <<69552, 69579>>,
     <<69600, 69622>>, <<69635, 69687>>, <<69714, 69743>>, <<69745, 69746>>, <<69749, 69749>>,
     <<69763, 69807>>, <<69840, 69864>>, <<69872, 69881>>, <<69891, 69926>>, <<69942, 69951>>,
     <<69956, 69956>>, <<69959, 69959>>, <<69968, 70002>>, <<70006, 70006>>, <<70019, 70066>>,
     <<70081, 70084>>, <<70096, 70106>>, <<70108, 70108>>, <<70113, 70132>>, <<70144, 70161>>,
     <<70163, 70187>>, <<70272, 70278>>, <<70280, 70280>>, <<70282, 70285>>, <<70287, 70301>>,
     <<70303, 70312>>, <<70320, 70366>>, <<70384, 70393>>, <<70405, 70412>>, <<70415, 70416>>,
     <<70419, 70440>>, <<70442, 70448>>, <<70450, 70451>>, <<70453, 70457>>, <<70461, 70461>>,
     <<70480, 70480>>, <<70493, 70497>>, <<70656, 70708>>, <<70727, 70730>>, <<70736, 70745>>,
     <<70751, 70753>>, <<70784, 70831>>, <<70852, 70853>>, <<70855, 70855>>, <<70864, 70873>>,
     <<71040, 71086>>, <<71128, 71131>>, <<71168, 71215>>, <<71236, 71236>>, <<71248, 71257>>,
     <<71296, 71338>>, <<71352, 71352>>, <<71360, 71369>>, <<71424, 71450>>, <<71472, 71483>>,
     <<71488, 71494>>, <<71680, 71723>>, <<71840, 71922>>, <<71935, 71942>>, <<71945, 71945>>,
     <<71948, 71955>>, <<71957, 71958>>, <<71960, 71983>>, <<71999, 71999>>, <<72001, 72001>>,
     <<72016, 72025>>, <<72096, 72103>>, <<72106, 72144>>, <<72161, 72161>>, <<72163, 72163>>,
     <<72192, 72192>>, <<72203, 72242>>, <<72250, 72250>>, <<72272, 72272>>, <<72284, 72329>>,
     <<72349, 72349>>, <<72368, 72440>>, <<72704, 72712>>, <<72714, 72750>>, <<72768, 72768>>,
     <<72784, 72812>>, <<72818, 72847>>, <<72960, 72966>>, <<72968, 72969>>, <<72971, 73008>>,
     <<73030, 73030>>, <<73040, 73049>>, <<73056, 73061>>, <<73063, 73064>>, <<73066, 73097>>,
     <<73112, 73112>>, <<73120, 73129>>, <<73440, 73458>>, <<73648, 73648>>, <<73664, 73684>>,
     <<73728, 74649>>, <<74752, 74862>>, <<74880, 75075>>, <<77712, 77808>>, <<77824, 78894>>,
     <<82944, 83526>>, <<92160, 92728>>, <<92736, 92766>>, <<92768, 92777>>, <<92784, 92862>>,
     <<92864, 92873>>, <<92880, 92909>>, <<92928, 92975>>, <<92992, 92995>>, <<93008, 93017>>,
     <<93019, 93025>>, <<93027, 93047>>, <<93053, 93071>>, <<93760, 93846>>, <<93952, 94026>>,
     <<94032, 94032>>, <<94099, 94111>>, <<94176, 94177>>, <<94179, 94179>>, <<94208, 100343>>,
     <<100352, 101589>>, <<101632, 101640>>, <<110576, 110579>>, <<110581, 110587>>, <<110589,
     110590>>, <<110592, 110882>>, <<110928, 110930>>, <<110948, 110951>>, <<110960, 111355>>,
     <<113664, 113770>>, <<113776, 113788>>, <<113792, 113800>>, <<113808, 113817>>, <<119520,
     119539>>, <<119648, 119672>>, <<119808, 119892>>, <<119894, 119964>>, <<119966, 119967>>,
     <<119970, 119970>>, <<119973, 119974>>, <<119977, 119980>>, <<119982, 119993>>, <<119995,
     119995>>, <<119997, 120003>>, <<120005, 120069>>, <<120071, 120074>>, <<120077, 120084>>,
     <<120086, 120092>>, <<120094, 120121>>, <<120123, 120126>>, <<120128, 120132>>, <<120134,
     120134>>, <<120138, 120144>>, <<120146, 120485>>, <<120488, 120512>>, <<120514, 120538>>,
     <<120540, 120570>>, <<120572, 120596>>, <<120598, 120628>>, <<120630, 120654>>, <<120656,
     120686>>, <<120688, 120712>>, <<120714, 120744>>, <<120746, 120770>>, <<120772, 120779>>,
     <<120782, 120831>>, <<122624, 122654>>, <<123136, 123180>>, <<123191, 123197>>, <<123200,
     123209>>, <<123214, 123214>>, <<123536, 123565>>, <<123584, 123627>>, <<123632, 123641>>,
     <<124896, 124902>>, <<124904, 124907>>, <<124909, 124910>>, <<124912, 124926>>, <<124928,
     125124>>, <<125127, 125135>>, <<125184, 125251>>, <<125259, 125259>>, <<125264, 125273>>,
     <<126065, 126123>>, <<126125, 126127>>, <<126129, 126132>>, <<126209, 126253>>, <<126255,
     126269>>, <<126464, 126467>>, <<126469, 126495>>, <<126497, 126498>>, <<126500, 126500>>,
     <<126503, 126503>>, <<126505, 126514>>, <<126516, 126519>>, <<126521, 126521>>, <<126523,
     126523>>, <<126530, 126530>>, <<126535, 126535>>, <<126537, 126537>>, <<126539, 126539>>,
     <<126541, 126543>>, <<126545, 126546>>, <<126548, 126548>>, <<126551, 126551>>, <<126553,
     126553>>, <<126555, 126555>>, <<126557, 126557>>, <<126559, 126559>>, <<126561, 126562>>,
     <<126564, 126564>>, <<126567, 126570>>, <<126572, 126578>>, <<126580, 126583>>, <<126585,
     126588>>, <<126590, 126590>>, <<126592, 126601>>, <<126603, 126619>>, <<126625, 126627>>,
     <<126629, 126633>>, <<126635, 126651>>, <<127232, 127244>>, <<130032, 130041>>, <<131072,
     173791>>, <<173824, 177976>>, <<177984, 178205>>, <<178208, 183969>>, <<183984, 191456>>,
     <<194560, 195101>>, <<196608, 201546>>
  }

\* \w of the re module for str patterns (Unicode alphanumerics and "_").
IsWordChar(c) == IF c < 128 THEN c \in AsciiWordChars ELSE InRanges(c, WordRanges)

\* Simple lowercase mappings from 128 on, as <<first, last, step, delta>>:
\* every step-th code point c of first..last lowers to c + delta.
LowerRuns ==
  {
     <<192, 214, 1, 32>>, <<216, 222, 1, 32>>, <<256, 302, 2, 1>>, <<306, 310, 2, 1>>, <<313, 327,
     2, 1>>, <<330, 374, 2, 1>>, <<376, 376, 1, -121>>, <<377, 381, 2, 1>>, <<385, 385, 1, 210>>,
     <<386, 388, 2, 1>>, <<390, 390, 1, 206>>, <<391, 391, 1, 1>>, <<393, 394, 1, 205>>, <<395, 395,
     1, 1>>, <<398, 398, 1, 79>>, <<399, 399, 1, 202>>, <<400, 400, 1, 203>>, <<401, 401, 1, 1>>,
     <<403, 403, 1, 205>>, <<404, 404, 1, 207>>, <<406, 406, 1, 211>>, <<407, 407, 1, 209>>, <<408,
     408, 1, 1>>, <<412, 412, 1, 211>>, <<413, 413, 1, 213>>, <<415, 415, 1, 214>>, <<416, 420, 2,
     1>>, <<422, 422, 1, 218>>, <<423, 423, 1, 1>>, <<425, 425, 1, 218>>, <<428, 428, 1, 1>>, <<430,
     430, 1, 218>>, <<431, 431, 1, 1>>, <<433, 434, 1, 217>>, <<435, 437, 2, 1>>, <<439, 439, 1,
     219>>, <<440, 440, 1, 1>>, <<444, 444, 1, 1>>, <<452, 452, 1, 2>>, <<453, 453, 1, 1>>, <<455,
     455, 1, 2>>, <<456, 456, 1, 1>>, <<458, 458, 1, 2>>, <<459, 475, 2, 1>>, <<478, 494, 2, 1>>,
     <<497, 497, 1, 2>>, <<498, 500, 2, 1>>, <<502, 502, 1, -97>>, <<503, 503, 1, -56>>, <<504, 542,
     2, 1>>, <<544, 544, 1, -130>>, <<546, 562, 2, 1>>, <<570, 570, 1, 10795>>, <<571, 571, 1, 1>>,
     <<573, 573, 1, -163>>, <<574, 574, 1, 10792>>, <<577, 577, 1, 1>>, <<579, 579, 1, -195>>,
     <<580, 580, 1, 69>>, <<581, 581, 1, 71>>, <<582, 590, 2, 1>>, <<880, 882, 2, 1>>, <<886, 886,
     1, 1>>, <<895, 895, 1, 116>>, <<902, 902, 1, 38>>, <<904, 906, 1, 37>>, <<908, 908, 1, 64>>,
     <<910, 911, 1, 63>>, <<913, 929, 1, 32>>, <<931, 939, 1, 32>>, <<975, 975, 1, 8>>, <<984, 1006,
     2, 1>>, <<1012, 1012, 1, -60>>, <<1015, 1015, 1, 1>>, <<1017, 1017, 1, -7>>, <<1018, 1018, 1,
     1>>, <<1021, 1023, 1, -130>>, <<1024, 1039, 1, 80>>, <<1040, 1071, 1, 32>>, <<1120, 1152, 2,
     1>>, <<1162, 1214, 2, 1>>, <<1216, 1216, 1, 15>>, <<1217, 1229, 2, 1>>, <<1232, 1326, 2, 1>>,
     <<1329, 1366, 1, 48>>, <<4256, 4293, 1, 7264>>, <<4295, 4295, 1, 7264>>, <<4301, 4301, 1,
     7264>>, <<5024, 5103, 1, 38864>>, <<5104, 5109, 1, 8>>, <<7312, 7354, 1, -3008>>, <<7357, 7359,
     1, -3008>>, <<7680, 7828, 2, 1>>, <<7838, 7838, 1, -7615>>, <<7840, 7934, 2, 1>>, <<7944, 7951,
     1, -8>>, <<7960, 7965, 1, -8>>, <<7976, 7983, 1, -8>>, <<7992, 7999, 1, -8>>, <<8008, 8013, 1,
     -8>>, <<8025, 8031, 2, -8>>, <<8040, 8047, 1, -8>>, <<8072, 8079, 1, -8>>, <<8088, 8095, 1,
     -8>>, <<8104, 8111, 1, -8>>, <<8120, 8121, 1, -8>>, <<8122, 8123, 1, -74>>, <<8124, 8124, 1,
     -9>>, <<8136, 8139, 1, -86>>, <<8140, 8140, 1, -9>>, <<8152, 8153, 1, -8>>, <<8154, 8155, 1,
     -100>>, <<8168, 8169, 1, -8>>, <<8170, 8171, 1, -112>>, <<8172, 8172, 1, -7>>, <<8184, 8185, 1,
     -128>>, <<8186, 8187, 1, -126>>, <<8188, 8188, 1, -9>>, <<8486, 8486, 1, -7517>>, <<8490, 8490,
     1, -8383>>, <<8491, 8491, 1, -8262>>, <<8498, 8498, 1, 28>>, <<8544, 8559, 1, 16>>, <<8579,
     8579, 1, 1>>, <<9398, 9423, 1, 26>>, <<11264, 11311, 1, 48>>, <<11360, 11360, 1, 1>>, <<11362,
     11362, 1, -10743>>, <<11363, 11363, 1, -3814>>, <<11364, 11364, 1, -10727>>, <<11367, 11371, 2,
     1>>, <<11373, 11373, 1, -10780>>, <<11374, 11374, 1, -10749>>, <<11375, 11375, 1, -10783>>,
     <<11376, 11376, 1, -10782>>, <<11378, 11378, 1, 1>>, <<11381, 11381, 1, 1>>, <<11390, 11391, 1,
     -10815>>, <<11392, 11490, 2, 1>>, <<11499, 11501, 2, 1>>, <<11506, 11506, 1, 1>>, <<42560,
     42604, 2, 1>>, <<42624, 42650, 2, 1>>, <<42786, 42798, 2, 1>>, <<42802, 42862, 2, 1>>, <<42873,
     42875, 2, 1>>, <<42877, 42877, 1, -35332>>, <<42878, 42886, 2, 1>>, <<42891, 42891, 1, 1>>,
     <<42893, 42893, 1, -42280>>, <<42896, 42898, 2, 1>>, <<42902, 42920, 2, 1>>, <<42922, 42922, 1,
     -42308>>, <<42923, 42923, 1, -42319>>, <<42924, 42924, 1, -42315>>, <<42925, 42925, 1,
     -42305>>, <<42926, 42926, 1, -42308>>, <<42928, 42928, 1, -42258>>, <<42929, 42929, 1,
     -42282>>, <<42930, 42930, 1, -42261>>, <<42931, 42931, 1, 928>>, <<42932, 42946, 2, 1>>,
     <<42948, 42948, 1, -48>>, <<42949, 42949, 1, -42307>>, <<42950, 42950, 1, -35384>>, <<42951,
     42953, 2, 1>>, <<42960, 42960, 1, 1>>, <<42966, 42968, 2, 1>>, <<42997, 42997, 1, 1>>, <<65313,
     65338, 1, 32>>, <<66560, 66599, 1, 40>>, <<66736, 66771, 1, 40>>, <<66928, 66938, 1, 39>>,
     <<66940, 66954, 1, 39>>, <<66956, 66962, 1, 39>>, <<66964, 66965, 1, 39>>, <<68736, 68786, 1,
     64>>, <<71840, 71871, 1, 32>>, <<93760, 93791, 1, 32>>, <<125184, 125217, 1, 34>>
  }

\* Case-ignorable characters below 128 and, as ranges, from 128 on.
AsciiCaseIgnorable == {39} \cup {46} \cup {58} \cup {94} \cup {96}

CaseIgnorableRanges ==
  {
     <<168, 168>>, <<173, 173>>, <<175, 175>>, <<180, 180>>, <<183, 184>>, <<688, 879>>, <<884,
     885>>, <<890, 890>>, <<900, 901>>, <<903, 903>>, <<1155, 1161>>, <<1369, 1369>>, <<1375,
     1375>>, <<1425, 1469>>, <<1471, 1471>>, <<1473, 1474>>, <<1476, 1477>>, <<1479, 1479>>, <<1524,
     1524>>, <<1536, 1541>>, <<1552, 1562>>, <<1564, 1564>>, <<1600, 1600>>, <<1611, 1631>>, <<1648,
     1648>>, <<1750, 1757>>, <<1759, 1768>>, <<1770, 1773>>, <<1807, 1807>>, <<1809, 1809>>, <<1840,
     1866>>, <<1958, 1968>>, <<2027, 2037>>, <<2042, 2042>>, <<2045, 2045>>, <<2070, 2093>>, <<2137,
     2139>>, <<2184, 2184>>, <<2192, 2193>>, <<2200, 2207>>, <<2249, 2306>>, <<2362, 2362>>, <<2364,
     2364>>, <<2369, 2376>>, <<2381, 2381>>, <<2385, 2391>>, <<2402, 2403>>, <<2417, 2417>>, <<2433,
     2433>>, <<2492, 2492>>, <<2497, 2500>>, <<2509, 2509>>, <<2530, 2531>>, <<2558, 2558>>, <<2561,
     2562>>, <<2620, 2620>>, <<2625, 2626>>, <<2631, 2632>>, <<2635, 2637>>, <<2641, 2641>>, <<2672,
     2673>>, <<2677, 2677>>, <<2689, 2690>>, <<2748, 2748>>, <<2753, 2757>>, <<2759, 2760>>, <<2765,
     2765>>, <<2786, 2787>>, <<2810, 2815>>, <<2817, 2817>>, <<2876, 2876>>, <<2879, 2879>>, <<2881,
     2884>>, <<2893, 2893>>, <<2901, 2902>>, <<2914, 2915>>, <<2946, 2946>>, <<3008, 3008>>, <<3021,
     3021>>, <<3072, 3072>>, <<3076, 3076>>, <<3132, 3132>>, <<3134, 3136>>, <<3142, 3144>>, <<3146,
     3149>>, <<3157, 3158>>, <<3170, 3171>>, <<3201, 3201>>, <<3260, 3260>>, <<3263, 3263>>, <<3270,
     3270>>, <<3276, 3277>>, <<3298, 3299>>, <<3328, 3329>>, <<3387, 3388>>, <<3393, 3396>>, <<3405,
     3405>>, <<3426, 3427>>, <<3457, 3457>>, <<3530, 3530>>, <<3538, 3540>>, <<3542, 3542>>, <<3633,
     3633>>, <<3636, 3642>>, <<3654, 3662>>, <<3761, 3761>>, <<3764, 3772>>, <<3782, 3782>>, <<3784,
     3789>>, <<3864, 3865>>, <<3893, 3893>>, <<3895, 3895>>, <<3897, 3897>>, <<3953, 3966>>, <<3968,
     3972>>, <<3974, 3975>>, <<3981, 3991>>, <<3993, 4028>>, <<4038, 4038>>, <<4141, 4144>>, <<4146,
     4151>>, <<4153, 4154>>, <<4157, 4158>>, <<4184, 4185>>, <<4190, 4192>>, <<4209, 4212>>, <<4226,
     4226>>, <<4229, 4230>>, <<4237, 4237>>, <<4253, 4253>>, <<4348, 4348>>, <<4957, 4959>>, <<5906,
     5908>>, <<5938, 5939>>, <<5970, 5971>>, <<6002, 6003>>, <<6068, 6069>>, <<6071, 6077>>, <<6086,
     6086>>, <<6089, 6099>>, <<6103, 6103>>, <<6109, 6109>>, <<6155, 6159>>, <<6211, 6211>>, <<6277,
     6278>>, <<6313, 6313>>, <<6432, 6434>>, <<6439, 6440>>, <<6450, 6450>>, <<6457, 6459>>, <<6679,
     6680>>, <<6683, 6683>>, <<6742, 6742>>, <<6744, 6750>>, <<6752, 6752>>, <<6754, 6754>>, <<6757,
     6764>>, <<6771, 6780>>, <<6783, 6783>>, <<6823, 6823>>, <<6832, 6862>>, <<6912, 6915>>, <<6964,
     6964>>, <<6966, 6970>>, <<6972, 6972>>, <<6978, 6978>>, <<7019, 7027>>, <<7040, 7041>>, <<7074,
     7077>>, <<7080, 7081>>, <<7083, 7085>>, <<7142, 7142>>, <<7144, 7145>>, <<7149, 7149>>, <<7151,
     7153>>, <<7212, 7219>>, <<7222, 7223>>, <<7288, 7293>>, <<7376, 7378>>, <<7380, 7392>>, <<7394,
     7400>>, <<7405, 7405>>, <<7412, 7412>>, <<7416, 7417>>, <<7468, 7530>>, <<7544, 7544>>, <<7579,
     7679>>, <<8125, 8125>>, <<8127, 8129>>, <<8141, 8143>>, <<8157, 8159>>, <<8173, 8175>>, <<8189,
     8190>>, <<8203, 8207>>, <<8216, 8217>>, <<8228, 8228>>, <<8231, 8231>>, <<8234, 8238>>, <<8288,
     8292>>, <<8294, 8303>>, <<8305, 8305>>, <<8319, 8319>>, <<8336, 8348>>, <<8400, 8432>>,
     <<11388, 11389>>, <<11503, 11505>>, <<11631, 11631>>, <<11647, 11647>>, <<11744, 11775>>,
     <<11823, 11823>>, <<12293, 12293>>, <<12330, 12333>>, <<12337, 12341>>, <<12347, 12347>>,
     <<12441, 12446>>, <<12540, 12542>>, <<40981, 40981>>, <<42232, 42237>>, <<42508, 42508>>,
     <<42607, 42610>>, <<42612, 42621>>, <<42623, 42623>>, <<42652, 42655>>, <<42736, 42737>>,
     <<42752, 42785>>, <<42864, 42864>>, <<42888, 42890>>, <<42994, 42996>>, <<43000, 43001>>,
     <<43010, 43010>>, <<43014, 43014>>, <<43019, 43019>>, <<43045, 43046>>, <<43052, 43052>>,
     <<43204, 43205>>, <<43232, 43249>>, <<43263, 43263>>, <<43302, 43309>>, <<43335, 43345>>,
     <<43392, 43394>>, <<43443, 43443>>, <<43446, 43449>>, <<43452, 43453>>, <<43471, 43471>>,
     <<43493, 43494>>, <<43561, 43566>>, <<43569, 43570>>, <<43573, 43574>>, <<43587, 43587>>,
     <<43596, 43596>>, <<43632, 43632>>, <<43644, 43644>>, <<43696, 43696>>, <<43698, 43700>>,
     <<43703, 43704>>, <<43710, 43711>>, <<43713, 43713>>, <<43741, 43741>>, <<43756, 43757>>,
     <<43763, 43764>>, <<43766, 43766>>, <<43867, 43871>>, <<43881, 43883>>, <<44005, 44005>>,
     <<44008, 44008>>, <<44013, 44013>>, <<64286, 64286>>, <<64434, 64450>>, <<65024, 65039>>,
     <<65043, 65043>>, <<65056, 65071>>, <<65106, 65106>>, <<65109, 65109>>, <<65279, 65279>>,
     <<65287, 65287>>, <<65294, 65294>>, <<65306, 65306>>, <<65342, 65342>>, <<65344, 65344>>,
     <<65392, 65392>>, <<65438, 65439>>, <<65507, 65507>>, <<65529, 65531>>, <<66045, 66045>>,
     <<66272, 66272>>, <<66422, 66426>>, <<67456, 67461>>, <<67463, 67504>>, <<67506, 67514>>,
     <<68097, 68099>>, <<68101, 68102>>, <<68108, 68111>>, <<68152, 68154>>, <<68159, 68159>>,
     <<68325, 68326>>, <<68900, 68903>>, <<69291, 69292>>, <<69446, 69456>>, <<69506, 69509>>,
     <<69633, 69633>>, <<69688, 69702>>, <<69744, 69744>>, <<69747, 69748>>, <<69759, 69761>>,
     <<69811, 69814>>, <<69817, 69818>>, <<69821, 69821>>, <<69826, 69826>>, <<69837, 69837>>,
     <<69888, 69890>>, <<69927, 69931>>, <<69933, 69940>>, <<70003, 70003>>, <<70016, 70017>>,
     <<70070, 70078>>, <<70089, 70092>>, <<70095, 70095>>, <<70191, 70193>>, <<70196, 70196>>,
     <<70198, 70199>>, <<70206, 70206>>, <<70367, 70367>>, <<70371, 70378>>, <<70400, 70401>>,
     <<70459, 70460>>, <<70464, 70464>>, <<70502, 70508>>, <<70512, 70516>>, <<70712, 70719>>,
     <<70722, 70724>>, <<70726, 70726>>, <<70750, 70750>>, <<70835, 70840>>, <<70842, 70842>>,
     <<70847, 70848>>, <<70850, 70851>>, <<71090, 71093>>, <<71100, 71101>>, <<71103, 71104>>,
     <<71132, 71133>>, <<71219, 71226>>, <<71229, 71229>>, <<71231, 71232>>, <<71339, 71339>>,
     <<71341, 71341>>, <<71344, 71349>>, <<71351, 71351>>, <<71453, 71455>>, <<71458, 71461>>,
     <<71463, 71467>>, <<71727, 71735>>, <<71737, 71738>>, <<71995, 71996>>, <<71998, 71998>>,
     <<72003, 72003>>, <<72148, 72151>>, <<72154, 72155>>, <<72160, 72160>>, <<72193, 72202>>,
     <<72243, 72248>>, <<72251, 72254>>, <<72263, 72263>>, <<72273, 72278>>, <<72281, 72283>>,
     <<72330, 72342>>, <<72344, 72345>>, <<72752, 72758>>, <<72760, 72765>>, <<72767, 72767>>,
     <<72850, 72871>>, <<72874, 72880>>, <<72882, 72883>>, <<72885, 72886>>, <<73009, 73014>>,
     <<73018, 73018>>, <<73020, 73021>>, <<73023, 73029>>, <<73031, 73031>>, <<73104, 73105>>,
     <<73109, 73109>>, <<73111, 73111>>, <<73459, 73460>>, <<78896, 78904>>, <<92912, 92916>>,
     <<92976, 92982>>, <<92992, 92995>>, <<94031, 94031>>, <<94095, 94111>>, <<94176, 94177>>,
     <<94179, 94180>>, <<110576, 110579>>, <<110581, 110587>>, <<110589, 110590>>, <<113821,
     113822>>, <<113824, 113827>>, <<118528, 118573>>, <<118576, 118598>>, <<119143, 119145>>,
     <<119155, 119170>>, <<119173, 119179>>, <<119210, 119213>>, <<119362, 119364>>, <<121344,
     121398>>, <<121403, 121452>>, <<121461, 121461>>, <<121476, 121476>>, <<121499, 121503>>,
     <<121505, 121519>>, <<122880, 122886>>, <<122888, 122904>>, <<122907, 122913>>, <<122915,
     122916>>, <<122918, 122922>>, <<123184, 123197>>, <<123566, 123566>>, <<123628, 123631>>,
     <<125136, 125142>>, <<125252, 125259>>, <<127995, 127999>>, <<917505, 917505>>, <<917536,
     917631>>, <<917760, 917999>>
  }

IsCaseIgnorable(c) ==
  IF c < 128 THEN c \in AsciiCaseIgnorable ELSE InRanges(c, CaseIgnorableRanges)

\* Cased characters that are not case-ignorable, below 128 and from 128 on.
AsciiCased == 65..90 \cup 97..122

CasedRanges ==
  {
     <<170, 170>>, <<181, 181>>, <<186, 186>>, <<192, 214>>, <<216, 246>>, <<248, 442>>, <<444,
     447>>, <<452, 659>>, <<661, 687>>, <<880, 883>>, <<886, 887>>, <<891, 893>>, <<895, 895>>,
     <<902, 902>>, <<904, 906>>, <<908, 908>>, <<910, 929>>, <<931, 1013>>, <<1015, 1153>>, <<1162,
     1327>>, <<1329, 1366>>, <<1376, 1416>>, <<4256, 4293>>, <<4295, 4295>>, <<4301, 4301>>, <<4304,
     4346>>, <<4349, 4351>>, <<5024, 5109>>, <<5112, 5117>>, <<7296, 7304>>, <<7312, 7354>>, <<7357,
     7359>>, <<7424, 7467>>, <<7531, 7543>>, <<7545, 7578>>, <<7680, 7957>>, <<7960, 7965>>, <<7968,
     8005>>, <<8008, 8013>>, <<8016, 8023>>, <<8025, 8025>>, <<8027, 8027>>, <<8029, 8029>>, <<8031,
     8061>>, <<8064, 8116>>, <<8118, 8124>>, <<8126, 8126>>, <<8130, 8132>>, <<8134, 8140>>, <<8144,
     8147>>, <<8150, 8155>>, <<8160, 8172>>, <<8178, 8180>>, <<8182, 8188>>, <<8450, 8450>>, <<8455,
     8455>>, <<8458, 8467>>, <<8469, 8469>>, <<8473, 8477>>, <<8484, 8484>>, <<8486, 8486>>, <<8488,
     8488>>, <<8490, 8493>>, <<8495, 8500>>, <<8505, 8505>>, <<8508, 8511>>, <<8517, 8521>>, <<8526,
     8526>>, <<8544, 8575>>, <<8579, 8580>>, <<9398, 9449>>, <<11264, 11387>>, <<11390, 11492>>,
     <<11499, 11502>>, <<11506, 11507>>, <<11520, 11557>>, <<11559, 11559>>, <<11565, 11565>>,
     <<42560, 42605>>, <<42624, 42651>>, <<42786, 42863>>, <<42865, 42887>>, <<42891, 42894>>,
     <<42896, 42954>>, <<42960, 42961>>, <<42963, 42963>>, <<42965, 42969>>, <<42997, 42998>>,
     <<43002, 43002>>, <<43824, 43866>>, <<43872, 43880>>, <<43888, 43967>>, <<64256, 64262>>,
     <<64275, 64279>>, <<65313, 65338>>, <<65345, 65370>>, <<66560, 66639>>, <<66736, 66771>>,
     <<66776, 66811>>, <<66928, 66938>>, <<66940, 66954>>, <<66956, 66962>>, <<66964, 66965>>,
     <<66967, 66977>>, <<66979, 66993>>, <<66995, 67001>>, <<67003, 67004>>, <<68736, 68786>>,
     <<68800, 68850>>, <<71840, 71903>>, <<93760, 93823>>, <<119808, 119892>>, <<119894, 119964>>,
     <<119966, 119967>>, <<119970, 119970>>, <<119973, 119974>>, <<119977, 119980>>, <<119982,
     119993>>, <<119995, 119995>>, <<119997, 120003>>, <<120005, 120069>>, <<120071, 120074>>,
     <<120077, 120084>>, <<120086, 120092>>, <<120094, 120121>>, <<120123, 120126>>, <<120128,
     120132>>, <<120134, 120134>>, <<120138, 120144>>, <<120146, 120485>>, <<120488, 120512>>,
     <<120514, 120538>>, <<120540, 120570>>, <<120572, 120596>>, <<120598, 120628>>, <<120630,
     120654>>, <<120656, 120686>>, <<120688, 120712>>, <<120714, 120744>>, <<120746, 120770>>,
     <<120772, 120779>>, <<122624, 122633>>, <<122635, 122654>>, <<125184, 125251>>, <<127280,
     127305>>, <<127312, 127337>>, <<127344, 127369>>
  }

\* Cased, for a character that is not case-ignorable.
IsCased(c) == IF c < 128 THEN c \in AsciiCased ELSE InRanges(c, CasedRanges)

(***************************************************************************)
(* SPAM_TERMS and the warning texts.                                       *)
(***************************************************************************)
\* "free", "guarantee", "guaranteed", "urgent", "act now", "limited time", "winner", "cash", "100%"
SPAM_TERMS ==
  << <<102, 114, 101, 101>>,
     <<103, 117, 97, 114, 97, 110, 116, 101, 101>>,
     <<103, 117, 97, 114, 97, 110, 116, 101, 101, 100>>,
     <<117, 114, 103, 101, 110, 116>>,
     <<97, 99, 116, 32, 110, 111, 119>>,
     <<108, 105, 109, 105, 116, 101, 100, 32, 116, 105, 109, 101>>,
     <<119, 105, 110, 110, 101, 114>>,
     <<99, 97, 115, 104>>,
     <<49, 48, 48, 37>> >>

\* "Empty subject line"
WarnEmpty == <<69, 109, 112, 116, 121, 32, 115, 117, 98, 106, 101, 99, 116, 32, 108, 105, 110, 101>>
\* "Too long (60+ characters)"
WarnTooLong == <<84, 111, 111, 32, 108, 111, 110, 103, 32, 40, 54, 48, 43, 32, 99, 104, 97, 114, 97, 99, 116, 101, 114, 115, 41>>
\* "Long (45+ characters)"
WarnLong == <<76, 111, 110, 103, 32, 40, 52, 53, 43, 32, 99, 104, 97, 114, 97, 99, 116, 101, 114, 115, 41>>
\* "Too many exclamation marks"
WarnExclaim == <<84, 111, 111, 32, 109, 97, 110, 121, 32, 101, 120, 99, 108, 97, 109, 97, 116, 105, 111, 110, 32, 109, 97, 114, 107, 115>>
\* "Contains ALL CAPS words"
WarnCaps == <<67, 111, 110, 116, 97, 105, 110, 115, 32, 65, 76, 76, 32, 67, 65, 80, 83, 32, 119, 111, 114, 100, 115>>
\* f"Spam term detected: '{term}'"
WarnSpam(term) ==
  <<83, 112, 97, 109, 32, 116, 101, 114, 109, 32, 100, 101, 116, 101, 99, 116, 101, 100, 58, 32, 39>>
    \o term \o <<39>>

(***************************************************************************)
(* str methods used by the handler.                                        *)
(***************************************************************************)
RECURSIVE lstrip(_)
lstrip(s) == IF s # <<>> /\ Head(s) \in Whitespace THEN lstrip(Tail(s)) ELSE s

RECURSIVE rstrip(_)
rstrip(s) ==
  IF s # <<>> /\ s[Len(s)] \in Whitespace THEN rstrip(SubSeq(s, 1, Len(s) - 1)) ELSE s

\* A strip that trims the left end only.
stripLeftOnly(s) == lstrip(s)

\* A strip that removes blanks only.
stripBlanksOnly(s) ==
  LET RECURSIVE l(_), r(_)
      l(t) == IF t # <<>> /\ Head(t) = 32 THEN l(Tail(t)) ELSE t
      r(t) == IF t # <<>> /\ t[Len(t)] = 32 THEN r(SubSeq(t, 1, Len(t) - 1)) ELSE t
  IN r(l(s))

\* (subject or "").strip()
strip(s) == rstrip(lstrip(s))

\* The lowercase form of one character other than capital sigma; U+0130 is
\* the only character whose lowercase form has two characters.
lowerChar(c) ==
  IF c < 128 THEN (IF IsUpper(c) THEN <<c + 32>> ELSE <<c>>)
  ELSE IF c = 304 THEN <<105, 775>>
  ELSE LET m == {r \in LowerRuns : r[1] <= c /\ c <= r[2] /\ (c - r[1]) % r[3] = 0}
       IN IF m = {} THEN <<c>> ELSE <<c + (CHOOSE r \in m : TRUE)[4]>>

\* Capital sigma at position i lowers to the final form U+03C2 when a cased
\* character precedes it and none follows, case-ignorable characters skipped.
handle_capital_sigma(s, i) ==
  LET before == {j \in 1..(i - 1) : ~IsCaseIgnorable(s[j])}
      after  == {j \in (i + 1)..Len(s) : ~IsCaseIgnorable(s[j])}
      last   == CHOOSE j \in before : \A h \in before : h <= j
      first  == CHOOSE j \in after : \A h \in after : j <= h
  IN IF /\ before # {}
        /\ IsCased(s[last])
        /\ after = {} \/ ~IsCased(s[first])
       THEN 962 ELSE 963

RECURSIVE lowerFrom(_, _)
lowerFrom(s, i) ==
  IF i > Len(s) THEN <<>>
  ELSE (IF s[i] = 931 THEN <<handle_capital_sigma(s, i)>> ELSE lowerChar(s[i]))
         \o lowerFrom(s, i + 1)

\* A lower() that folds nothing.
lowerIdentity(s) == s

\* subject.lower()
lower(s) == lowerFrom(s, 1)

\* term in lower
In(term, s) ==
  \E p \in 0..(Len(s) - Len(term)) : SubSeq(s, p + 1, p + Len(term)) = term

\* subject.count("!")
count(s, c) == Cardinality({k \in 1..Len(s) : s[k] = c})

\* \b between position p and p + 1 of s (p in 0..Len(s)).
WordBoundary(s, p) ==
  LET before == p >= 1 /\ IsWordChar(s[p])
      after  == p < Len(s) /\ IsWordChar(s[p + 1])
  IN before # after

\* The pattern with a run of five letters or more.
ALL_CAPS_PATTERN_five(s) ==
  \E a \in 1..Len(s) :
    /\ IsUpper(s[a])
    /\ WordBoundary(s, a - 1)
    /\ \E b \in (a + 4)..Len(s) :
         /\ WordBoundary(s, b)
         /\ \A k \in a..b : IsUpper(s[k])

\* ALL_CAPS_PATTERN.search(subject) is not None, for r"\b[A-Z]{4,}\b"
ALL_CAPS_PATTERN(s) ==
  \E a \in 1..Len(s) :
    /\ IsUpper(s[a])
    /\ WordBoundary(s, a - 1)
    /\ \E b \in (a + 3)..Len(s) :
         /\ WordBoundary(s, b)
         /\ \A k \in a..b : IsUpper(s[k])

(***************************************************************************)
(* The rules of one loop iteration, each acting on [score, warnings].      *)
(***************************************************************************)
Penalise(st, points, warning) ==
  [score |-> st.score - points, warnings |-> Append(st.warnings, warning)]

\* The length rule with the upper threshold included.
LengthRuleInclusive(length, st) ==
  IF length >= 60 THEN Penalise(st, 25, WarnTooLong)
  ELSE IF length > 45 THEN Penalise(st, 15, WarnLong)
  ELSE st

LengthRule(length, st) ==
  IF length > 60 THEN Penalise(st, 25, WarnTooLong)
  ELSE IF length > 45 THEN Penalise(st, 15, WarnLong)
  ELSE st

\* Number of (possibly overlapping) occurrences of term in s.
Occurrences(term, s) ==
  Cardinality({p \in 0..(Len(s) - Len(term)) : SubSeq(s, p + 1, p + Len(term)) = term})

\* A spam step that penalises every occurrence of the term.
SpamStepPerOccurrence(term, low, st) ==
  LET n == Occurrences(term, low)
      RECURSIVE rep(_, _)
      rep(k, acc) == IF k = 0 THEN acc ELSE rep(k - 1, Penalise(acc, 20, WarnSpam(term)))
  IN rep(n, st)

\* Body of `for term in SPAM_TERMS`.
SpamStep(term, low, st) ==
  IF In(term, low) THEN Penalise(st, 20, WarnSpam(term)) ELSE st

RECURSIVE SpamLoop(_, _, _)
SpamLoop(k, low, st) ==
  IF k > Len(SPAM_TERMS) THEN st
  ELSE SpamLoop(k + 1, low, SpamStep(SPAM_TERMS[k], low, st))

ExclaimRule(subject, st) ==
  IF count(subject, 33) >= 2 THEN Penalise(st, 10, WarnExclaim) ELSE st

\* An all-caps rule that subtracts without warning.
CapsRuleSilent(subject, st) ==
  IF ALL_CAPS_PATTERN(subject)
    THEN [score |-> st.score - 10, warnings |-> st.warnings]
    ELSE st

CapsRule(subject, st) ==
  IF ALL_CAPS_PATTERN(subject) THEN Penalise(st, 10, WarnCaps) ELSE st

\* score and warnings just before the clamp, for a non-empty trimmed subject.
Unclamped(subject) ==
  LET st0 == [score |-> 100, warnings |-> <<>>]
      st1 == LengthRule(Len(subject), st0)
      st2 == SpamLoop(1, lower(subject), st1)
      st3 == ExclaimRule(subject, st2)
  IN CapsRule(subject, st3)

Max(a, b) == IF a >= b THEN a ELSE b
Min(a, b) == IF a <= b THEN a ELSE b

\* A clamp without the lower bound.
ClampUpperOnly(score) == Min(100, score)

\* max(0, min(100, score))
Clamp(score) == Max(0, Min(100, score))

\* A classification with a strict upper threshold.
SpamRiskStrict(score) ==
  IF score > 80 THEN "Low" ELSE IF score >= 60 THEN "Medium" ELSE "High"

SpamRisk(score) ==
  IF score >= 80 THEN "Low" ELSE IF score >= 60 THEN "Medium" ELSE "High"

\* The report appended by the empty-subject branch.
EmptyReport(subject) ==
  [subject |-> subject, score |-> 0, length |-> 0, spam_risk |-> "High",
   warnings |-> <<WarnEmpty>>]

\* The report appended at the end of an iteration.
ScoreReport(subject) ==
  LET st == Unclamped(subject)
      score == Clamp(st.score)
  IN [subject |-> subject, score |-> score, length |-> Len(subject),
      spam_risk |-> SpamRisk(score), warnings |-> st.warnings]

\* A selection that keeps the last maximum.
RECURSIVE LastMaxByScore(_, _, _)
LastMaxByScore(rs, k, best) ==
  IF k > Len(rs) THEN best
  ELSE LastMaxByScore(rs, k + 1, IF rs[k].score >= rs[best].score THEN k ELSE best)

\* max(results, key=lambda x: x["score"]): the first item with the largest key.
RECURSIVE MaxByScore(_, _, _)
MaxByScore(rs, k, best) ==
  IF k > Len(rs) THEN best
  ELSE MaxByScore(rs, k + 1, IF rs[k].score > rs[best].score THEN k ELSE best)

BestSubject(rs) == IF rs # <<>> THEN rs[MaxByScore(rs, 2, 1)].subject ELSE <<>>

(***************************************************************************)
(* Inputs.                                                                 *)
(***************************************************************************)
\* "Buy now!! FREE cash guaranteed"
LineBuyNow == <<66, 117, 121, 32, 110, 111, 119, 33, 33, 32, 70, 82, 69, 69, 32, 99, 97, 115, 104, 32, 103, 117, 97, 114, 97, 110, 116, 101, 101, 100>>
\* "WINNER!! FREE FREE FREE"
LineWinner3 == <<87, 73, 78, 78, 69, 82, 33, 33, 32, 70, 82, 69, 69, 32, 70, 82, 69, 69, 32, 70, 82, 69, 69>>
\* "WINNER!! FREE"
LineWinner1 == <<87, 73, 78, 78, 69, 82, 33, 33, 32, 70, 82, 69, 69>>
\* "Hi"
LineHi == <<72, 105>>
\* "NASA"
LineNASA == <<78, 65, 83, 65>>
\* "urgent"
LineUrgent == <<117, 114, 103, 101, 110, 116>>
\* "w\u0130nner \u0391\u03a3 NASA\u00e9": U+0130 lowers to two characters, the capital sigma to
\* its final form, and U+00E9 is a word character next to the capitals.
LineUnicode == <<119, 304, 110, 110, 101, 114, 32, 913, 931, 32, 78, 65, 83, 65, 233>>
\* "our-news-digest-2026", 20 characters
Filler20 == <<111, 117, 114, 45, 110, 101, 119, 115, 45, 100, 105, 103, 101, 115, 116, 45, 50, 48, 50, 54>>
\* "quarterly.product.updates", 25 characters
Filler25 == <<113, 117, 97, 114, 116, 101, 114, 108, 121, 46, 112, 114, 111, 100, 117, 99, 116, 46, 117, 112, 100, 97, 116, 101, 115>>

\* Pieces a single line is put together from.
Tokens ==
  { LineBuyNow, LineWinner3, LineHi, LineNASA, LineUrgent, Filler20, Filler25,
    <<32>>,                                     \* " "
    <<9>>,                                      \* "\t"
    <<160>>,                                    \* U+00A0, no-break space
    <<33>>,                                     \* "!"
    <<65, 66, 67>>,                             \* "ABC"
    <<68>>,                                     \* "D"
    <<233>>,                                    \* U+00E9
    <<65, 99, 116, 32, 78, 111, 119>>,          \* "Act Now"
    <<71, 117, 97, 114, 97, 110, 116, 101, 101>>, \* "Guarantee"
    <<49, 48, 48, 37>> }                        \* "100%"

RECURSIVE Flatten(_)
Flatten(ss) == IF ss = <<>> THEN <<>> ELSE Head(ss) \o Flatten(Tail(ss))

\* Lines of at most MaxTokens pieces.
Lines == {Flatten(ts) : ts \in UNION {[1..n -> Tokens] : n \in 0..MaxTokens}}

\* Lines a batch is drawn from.
BatchLines ==
  { <<>>,
    <<32, 9, 13, 8195>>,                        \* " \t\r" and U+2003
    LineHi,
    <<13>> \o LineHi \o <<13, 10>>,             \* "\rHi\r\n"
    LineBuyNow, LineWinner3, LineWinner1, LineNASA, LineUrgent, Filler20,
    Filler25 \o Filler25,
    LineUrgent \o <<32, 49, 48, 48, 37>>,       \* "urgent 100%"
    LineUnicode }

Batches == UNION {[1..n -> BatchLines] : n \in 0..MaxBatch}

(***************************************************************************)
(* The handler.                                                            *)
(***************************************************************************)
TypeOK ==
  /\ pc \in {"loop", "done"}
  /\ Len(results) <= Len(subject_lines)

\* A request with a batch of lines.
Init ==
  /\ subject_lines \in Batches
  /\ results = <<>>
  /\ best_subject = <<>>
  /\ pc = "loop"

\* A request with a single line built from pieces.
InitLine ==
  /\ subject_lines \in {<<l>> : l \in Lines}
  /\ results = <<>>
  /\ best_subject = <<>>
  /\ pc = "loop"

\* The subject of the next iteration: (subject or "").strip()
NextSubject == strip(subject_lines[Len(results) + 1])

\* An iteration that takes the `length == 0` branch.
EmptyLine ==
  /\ pc = "loop"
  /\ Len(results) < Len(subject_lines)
  /\ Len(NextSubject) = 0
  /\ results' = Append(results, EmptyReport(NextSubject))
  /\ UNCHANGED <<subject_lines, best_subject, pc>>

\* An iteration that applies the rules.
ScoreLine ==
  /\ pc = "loop"
  /\ Len(results) < Len(subject_lines)
  /\ Len(NextSubject) # 0
  /\ results' = Append(results, ScoreReport(NextSubject))
  /\ UNCHANGED <<subject_lines, best_subject, pc>>

\* The loop is over: best_subject is selected and the response returned.
Return ==
  /\ pc = "loop"
  /\ Len(results) = Len(subject_lines)
  /\ best_subject' = BestSubject(results)
  /\ pc' = "done"
  /\ UNCHANGED <<subject_lines, results>>

Next == EmptyLine \/ ScoreLine \/ Return

Spec == Init /\ [][Next]_vars

SpecLine == InitLine /\ [][Next]_vars

(***************************************************************************)
(* Vocabulary of the properties, stated on the characters of a line and    *)
(* independently of the operators the handler is built from.               *)
(***************************************************************************)
Reported == 1..Len(results)

Range(f) == {f[k] : k \in DOMAIN f}

AllWhitespace(s) == \A j \in 1..Len(s) : s[j] \in Whitespace

\* t is s without its leading and trailing whitespace.
IsTrimOf(t, s) ==
  \E a \in 0..Len(s) : \E b \in a..Len(s) :
    /\ t = SubSeq(s, a + 1, b)
    /\ \A j \in 1..a : s[j] \in Whitespace
    /\ \A j \in (b + 1)..Len(s) : s[j] \in Whitespace
    /\ t = <<>> \/ (t[1] \notin Whitespace /\ t[Len(t)] \notin Whitespace)

\* c is the letter t (a character of a term) in either case.
SameLetter(c, t) == c = t \/ (t \in 97..122 /\ c = t - 32)

\* term occurs in s, letter case ignored.
OccursCaseless(term, s) ==
  \E p \in 0..(Len(s) - Len(term)) :
    \A j \in 1..Len(term) : SameLetter(s[p + j], term[j])

TermsFound(s) == {j \in DOMAIN SPAM_TERMS : OccursCaseless(SPAM_TERMS[j], s)}

TwoExclamations(s) == \E i \in 1..Len(s) : \E j \in (i + 1)..Len(s) : s[i] = 33 /\ s[j] = 33

\* A run of four or more capitals with no letter, digit or underscore next to it.
CapsRun(s) ==
  \E a \in 1..Len(s) :
    /\ s[a] \in 65..90
    /\ a = 1 \/ ~IsWordChar(s[a - 1])
    /\ \E b \in (a + 3)..Len(s) :
         /\ b = Len(s) \/ ~IsWordChar(s[b + 1])
         /\ \A j \in a..b : s[j] \in 65..90

LengthPenalty(n) == IF n > 60 THEN 25 ELSE IF n > 45 THEN 15 ELSE 0

Bit(b) == IF b THEN 1 ELSE 0

\* The warnings of a non-empty line, in rule evaluation order.
ExpectedSpamWarnings(s) ==
  LET RECURSIVE from(_)
      from(j) ==
        IF j > Len(SPAM_TERMS) THEN <<>>
        ELSE (IF OccursCaseless(SPAM_TERMS[j], s) THEN <<WarnSpam(SPAM_TERMS[j])>> ELSE <<>>)
               \o from(j + 1)
  IN from(1)

ExpectedWarnings(s) ==
  (IF Len(s) > 60 THEN <<WarnTooLong>> ELSE IF Len(s) > 45 THEN <<WarnLong>> ELSE <<>>)
    \o ExpectedSpamWarnings(s)
    \o (IF TwoExclamations(s) THEN <<WarnExclaim>> ELSE <<>>)
    \o (IF CapsRun(s) THEN <<WarnCaps>> ELSE <<>>)

SpamWarnings == {WarnSpam(SPAM_TERMS[j]) : j \in DOMAIN SPAM_TERMS}

IsSpamWarning(w) == w \in SpamWarnings

SpamWarningsOf(r) == SelectSeq(r.warnings, IsSpamWarning)

RuleFired(s) ==
  Len(s) > 45 \/ TermsFound(s) # {} \/ TwoExclamations(s) \/ CapsRun(s)

(***************************************************************************)
(* Properties.                                                             *)
(***************************************************************************)

\* C1: every report, of an empty line or not, has a score between 0 and 100,
\* however many penalties were subtracted.
C1_ScoreInRange ==
  \A k \in Reported : results[k].score \in 0..100

\* A line whose penalties exceed 100 and whose score is clamped to 0.
C1_Witness ==
  \E k \in Reported :
    /\ results[k].length > 0
    /\ 100 - LengthPenalty(results[k].length) - 20 * Cardinality(TermsFound(results[k].subject)) < 0
    /\ results[k].score = 0

\* C2: when the response is returned, best_subject is the subject of the first
\* report with the maximum score; for the empty batch results and best_subject
\* are both empty.
C2_BestIsFirstMax ==
  pc = "done" =>
    IF subject_lines = <<>>
      THEN results = <<>> /\ best_subject = <<>>
      ELSE \E k \in Reported :
             /\ \A j \in Reported : results[j].score <= results[k].score
             /\ \A j \in 1..(k - 1) : results[j].score < results[k].score
             /\ best_subject = results[k].subject

\* Two different subjects tie for the maximum and the earlier one is returned.
C2_Witness ==
  /\ pc = "done"
  /\ \E j \in Reported : \E k \in Reported :
       /\ j < k
       /\ results[j].score = results[k].score
       /\ results[j].subject # results[k].subject
       /\ \A m \in Reported : results[m].score <= results[j].score
       /\ \A m \in 1..(j - 1) : results[m].score < results[j].score
       /\ best_subject = results[j].subject

\* C3: results holds one report per input line, in input order: the k-th
\* report carries the trimmed k-th input and its character count, and at the
\* end there are as many reports as inputs.
C3_OneReportPerLine ==
  /\ Len(results) <= Len(subject_lines)
  /\ pc = "done" => Len(results) = Len(subject_lines)
  /\ \A k \in Reported :
       /\ IsTrimOf(results[k].subject, subject_lines[k])
       /\ results[k].length = Len(results[k].subject)

\* An empty line is followed by a line that had whitespace trimmed on the right.
C3_Witness ==
  /\ pc = "done"
  /\ \E j \in Reported : \E k \in Reported :
       /\ j < k
       /\ results[j].length = 0
       /\ results[k].length > 0
       /\ Len(subject_lines[k]) > results[k].length
       /\ subject_lines[k][Len(subject_lines[k])] \in Whitespace

\* C4: a line that is empty or all whitespace is reported as exactly score 0,
\* length 0, spam_risk "High" and the single warning "Empty subject line".
C4_EmptyLineReport ==
  \A k \in Reported :
    AllWhitespace(subject_lines[k]) =>
      results[k] = [subject |-> <<>>, score |-> 0, length |-> 0,
                    spam_risk |-> "High", warnings |-> <<WarnEmpty>>]

\* A line of whitespace that includes a tab has been reported.
C4_Witness ==
  \E k \in Reported :
    /\ Len(subject_lines[k]) > 0
    /\ AllWhitespace(subject_lines[k])
    /\ \E j \in 1..Len(subject_lines[k]) : subject_lines[k][j] = 9

\* C5 as stated: "Buy now!! FREE cash guaranteed" has spam warnings for free,
\* cash and guaranteed only, the exclamation warning, score 30 and risk "High".
C5_Original ==
  \A k \in Reported :
    results[k].subject = LineBuyNow =>
      /\ Range(SpamWarningsOf(results[k])) =
           {WarnSpam(SPAM_TERMS[1]), WarnSpam(SPAM_TERMS[8]), WarnSpam(SPAM_TERMS[3])}
      /\ Len(SpamWarningsOf(results[k])) = 3
      /\ \E j \in 1..Len(results[k].warnings) : results[k].warnings[j] = WarnExclaim
      /\ results[k].score = 30
      /\ results[k].spam_risk = "High"

\* C5 amended: "Buy now!! FREE cash guaranteed" has spam warnings for free,
\* guarantee, guaranteed and cash (each once), then the exclamation warning and
\* the all-caps warning, score max(0, 100 - 20*4 - 10 - 10) = 0 and risk "High".
C5_BuyNowReport ==
  \A k \in Reported :
    results[k].subject = LineBuyNow =>
      /\ results[k].warnings =
           <<WarnSpam(SPAM_TERMS[1]), WarnSpam(SPAM_TERMS[2]), WarnSpam(SPAM_TERMS[3]),
             WarnSpam(SPAM_TERMS[8]), WarnExclaim, WarnCaps>>
      /\ results[k].score = 0
      /\ results[k].spam_risk = "High"

\* The line "Buy now!! FREE cash guaranteed" has been reported.
C5_Witness ==
  \E k \in Reported : subject_lines[k] = LineBuyNow /\ results[k].subject = LineBuyNow

\* C6: in every report spam_risk follows from the final score alone:
\* "Low" iff score >= 80, "Medium" iff 60 <= score < 80, "High" iff score < 60.
C6_RiskFromScore ==
  \A k \in Reported :
    /\ results[k].spam_risk \in {"Low", "Medium", "High"}
    /\ results[k].spam_risk = "Low" <=> results[k].score >= 80
    /\ results[k].spam_risk = "Medium" <=> (results[k].score >= 60 /\ results[k].score < 80)
    /\ results[k].spam_risk = "High" <=> results[k].score < 60

\* A report whose score is exactly on the threshold 80.
C6_Witness ==
  \E k \in Reported : results[k].score = 80 /\ results[k].spam_risk = "Low"

\* C7: a term of the list that occurs in a line, in any letter case, is warned
\* about exactly once and in list order however often it is repeated, so
\* "WINNER!! FREE FREE FREE" is scored like "WINNER!! FREE", and the batch
\* ["Hi", "WINNER!! FREE FREE FREE"] returns best_subject "Hi".
C7_OncePerTerm ==
  /\ \A k \in Reported :
       results[k].length > 0 =>
         SpamWarningsOf(results[k]) = ExpectedSpamWarnings(results[k].subject)
  /\ \A j \in Reported : \A k \in Reported :
       (results[j].subject = LineWinner3 /\ results[k].subject = LineWinner1) =>
         /\ results[j].score = results[k].score
         /\ results[j].warnings = results[k].warnings
  /\ \A k \in Reported :
       results[k].subject = LineWinner3 =>
         /\ SpamWarningsOf(results[k]) = <<WarnSpam(SPAM_TERMS[1]), WarnSpam(SPAM_TERMS[7])>>
         /\ results[k].score = 100 - 20 * 2 - 10 - 10
  /\ (pc = "done" /\ subject_lines = <<LineHi, LineWinner3>>) => best_subject = LineHi

\* The batch ["Hi", "WINNER!! FREE FREE FREE"] has been answered.
C7_Witness ==
  /\ pc = "done"
  /\ subject_lines = <<LineHi, LineWinner3>>
  /\ Len(SpamWarningsOf(results[2])) = 2
  /\ best_subject = LineHi

\* C8: warnings is empty iff the line is non-empty and no rule fired; for a
\* non-empty line that is iff the score before the clamp is still 100; and the
\* warnings are in rule order: length, spam terms in list order, exclamation
\* marks, all-caps.
C8_WarningsAndRules ==
  \A k \in Reported :
    /\ results[k].warnings = <<>> <=>
         (results[k].length > 0 /\ ~RuleFired(results[k].subject))
    /\ results[k].length > 0 =>
         /\ results[k].warnings = <<>> <=> Unclamped(results[k].subject).score = 100
         /\ results[k].warnings = ExpectedWarnings(results[k].subject)

\* A report with a length warning, spam warnings, the exclamation warning and
\* the all-caps warning, in that order.
C8_Witness ==
  \E k \in Reported :
    LET w == results[k].warnings IN
      /\ Len(w) >= 4
      /\ w[1] \in {WarnLong, WarnTooLong}
      /\ IsSpamWarning(w[2])
      /\ w[Len(w) - 1] = WarnExclaim
      /\ w[Len(w)] = WarnCaps

\* C9: a non-empty line scores max(0, 100 - L - 20*k - 10*e - 10*c) with L the
\* single length penalty (25 above 60 characters, else 15 above 45), k the
\* number of list terms found, e for two or more "!" and c for an all-caps
\* run; a clean 70-character line scores 75 with risk "Medium".
C9_ScoreFormula ==
  \A k \in Reported :
    results[k].length > 0 =>
      LET s == results[k].subject
          n == Cardinality(TermsFound(s))
          e == Bit(TwoExclamations(s))
          c == Bit(CapsRun(s))
      IN /\ results[k].score =
              Max(0, 100 - LengthPenalty(Len(s)) - 20 * n - 10 * e - 10 * c)
         /\ ~(\E i \in 1..Len(results[k].warnings) : \E j \in 1..Len(results[k].warnings) :
                results[k].warnings[i] = WarnLong /\ results[k].warnings[j] = WarnTooLong)
         /\ (Len(s) = 70 /\ n = 0 /\ e = 0 /\ c = 0) =>
              (results[k].score = 75 /\ results[k].spam_risk = "Medium")

\* A clean line of 70 characters has been scored 75.
C9_Witness ==
  \E k \in Reported :
    /\ results[k].length = 70
    /\ TermsFound(results[k].subject) = {}
    /\ ~TwoExclamations(results[k].subject)
    /\ ~CapsRun(results[k].subject)
    /\ results[k].score = 75

\* C10: a line containing "guaranteed" in any letter case is warned about both
\* "guarantee" and "guaranteed", so it has at least two spam warnings, a score
\* of at most 60 and a risk that is not "Low".
C10_GuaranteedFiresTwice ==
  \A k \in Reported :
    OccursCaseless(SPAM_TERMS[3], subject_lines[k]) =>
      /\ \E i \in 1..Len(results[k].warnings) : \E j \in 1..Len(results[k].warnings) :
           /\ i < j
           /\ results[k].warnings[i] = WarnSpam(SPAM_TERMS[2])
           /\ results[k].warnings[j] = WarnSpam(SPAM_TERMS[3])
      /\ Len(SpamWarningsOf(results[k])) >= 2
      /\ results[k].score <= 60
      /\ results[k].spam_risk # "Low"

\* The one-word line "GuaranteeD" has been reported with two spam warnings.
C10_Witness ==
  \E k \in Reported :
    /\ subject_lines[k] = <<71, 117, 97, 114, 97, 110, 116, 101, 101, 68>>
    /\ Len(SpamWarningsOf(results[k])) = 2
    /\ results[k].score = 60

====
